---- MODULE Spec2Model ----
(***************************************************************************)
(* A model of the data pipeline of the realtime-trading-terminal           *)
(* dashboard: the fetch adapter (src/src/fetch.py), the transforms         *)
(* (src/src/transform.py) and the memoised query layer                     *)
(* (src/app/callbacks.py, _cached_fetch under functools.lru_cache).        *)
(*                                                                         *)
(* Three specifications share the module:                                  *)
(*   Spec      the request path update_main -> _cached_fetch -> pipeline   *)
(*             with the LRU cache as state, one request at a time;         *)
(*   ConcSpec  the same path with several requests in flight, the steps    *)
(*             of the lru_cache wrapper interleaved;                       *)
(*   PipeSpec  download_history_tidy, compute_returns and                  *)
(*             compute_volatility applied to inputs drawn from bounded     *)
(*             sets.                                                       *)
(*                                                                         *)
(* Modelling conventions.                                                  *)
(*  - A DataFrame is [columns, rows]: the set of column names and the      *)
(*    sequence of rows, each row a record over those columns.  Of the      *)
(*    price columns only `close` carries a value: open/high/low/volume     *)
(*    are never read by the pipeline, so only their presence is kept.      *)
(*    Row labels are unique in every frame the pipeline builds, so the     *)
(*    label alignment of a column assignment is positional.                *)
(*  - A float64 is [k, n, d]: k = "num" is the rational n/d in lowest      *)
(*    terms (d > 0), k = "inf" is +/- infinity by the sign of n,           *)
(*    k = "nan" is NaN (pandas' absent value), k = "sqrt" is the           *)
(*    non-negative root of n/d.  Arithmetic is exact: rounding is not      *)
(*    modelled.                                                            *)
(*  - Dates are integers (ordinal days); timezone stripping is a no-op     *)
(*    on them.                                                             *)
(***************************************************************************)
EXTENDS Integers, Sequences, FiniteSets, TLC

VARIABLES
    cache,      \* lru_cache of _cached_fetch: entries, least recently used first
    touched,    \* access history: resident keys by most recent access, oldest first
    last,       \* what the last update_main request did
    tickers,    \* PipeSpec: the ticker sequence given to download_history_tidy
    hists,      \* PipeSpec: what the provider answered, one per history() call
    outcome,    \* PipeSpec: "none", "ok" (df is a table) or the exception raised
    arg0,       \* PipeSpec: the argument of the last transform call, before the call
    long_df,    \* PipeSpec: the same argument object, after the call
    df,         \* PipeSpec: the table in hand (drawn, downloaded or returned)
    hist,       \* PipeSpec: the calls made so far, in order
    th,         \* ConcSpec: each request thread's position inside _cached_fetch
    lock        \* ConcSpec: holder of lru_cache's lock, 0 when it is free

vars == <<cache, touched, last, tickers, hists, outcome, arg0, long_df, df, hist,
         th, lock>>

cacheVars == <<cache, touched, last>>

pipeVars == <<tickers, hists, outcome, arg0, long_df, df, hist>>

concVars == <<th, lock>>

----------------------------------------------------------------------------
(* Bounds of the model                                                     *)

\* Longest ticker sequence handed to download_history_tidy in PipeSpec.
MaxTickers == 2

\* Most rows of a table drawn as a transform input.
MaxRows == 4

\* Most transform calls chained on one table.
MaxCalls == 2

\* Most requests in flight at once in ConcSpec.
MaxThreads == 2

\* Capacity of the query cache.  The source sets lru_cache(maxsize=64); the
\* eviction algorithm does not depend on the number, and the model runs it at
\* a capacity small enough for the cache to fill.
maxsize == 2

----------------------------------------------------------------------------
(* float64 arithmetic                                                      *)

Abs(x) == IF x < 0 THEN -x ELSE x

RECURSIVE GCD(_, _)
GCD(a, b) == IF b = 0 THEN a ELSE GCD(b, a % b)

LCM(a, b) == (a \div GCD(a, b)) * b

NaN == [k |-> "nan", n |-> 0, d |-> 1]

PosInf == [k |-> "inf", n |-> 1, d |-> 1]

NegInf == [k |-> "inf", n |-> -1, d |-> 1]

\* The rational n/d (d > 0) in lowest terms.
Num(n, d) ==
    LET g == GCD(Abs(n), d)
    IN  [k |-> "num", n |-> n \div g, d |-> d \div g]

One == Num(1, 1)

Sign(x) == IF x > 0 THEN 1 ELSE IF x < 0 THEN -1 ELSE 0

IsNaN(v) == v.k = "nan"

IsFinite(v) == v.k = "num"

\* Mutant of FDiv: a division by zero is coerced to 0.
FDiv_zero_coerced(a, b) ==
    IF IsNaN(a) \/ IsNaN(b) THEN NaN
    ELSE IF a.k = "inf" /\ b.k = "inf" THEN NaN
    ELSE IF a.k = "inf" THEN (IF a.n * (IF b.n < 0 THEN -1 ELSE 1) > 0 THEN PosInf ELSE NegInf)
    ELSE IF b.k = "inf" THEN Num(0, 1)
    ELSE IF b.n = 0 THEN Num(0, 1)
    ELSE Num(a.n * b.d * Sign(b.n), a.d * Abs(b.n))

\* a / b in IEEE arithmetic: x/0 is +/-inf, 0/0 is NaN.
FDiv(a, b) ==
    IF IsNaN(a) \/ IsNaN(b) THEN NaN
    ELSE IF a.k = "inf" /\ b.k = "inf" THEN NaN
    ELSE IF a.k = "inf" THEN (IF a.n * (IF b.n < 0 THEN -1 ELSE 1) > 0 THEN PosInf ELSE NegInf)
    ELSE IF b.k = "inf" THEN Num(0, 1)
    ELSE IF b.n = 0
         THEN (IF a.n = 0 THEN NaN ELSE IF a.n > 0 THEN PosInf ELSE NegInf)
    ELSE Num(a.n * b.d * Sign(b.n), a.d * Abs(b.n))

FAdd(a, b) ==
    IF IsNaN(a) \/ IsNaN(b) THEN NaN
    ELSE IF a.k = "inf" /\ b.k = "inf" THEN (IF a.n = b.n THEN a ELSE NaN)
    ELSE IF a.k = "inf" THEN a
    ELSE IF b.k = "inf" THEN b
    ELSE LET l == LCM(a.d, b.d)
         IN  Num(a.n * (l \div a.d) + b.n * (l \div b.d), l)

FMul(a, b) ==
    IF IsNaN(a) \/ IsNaN(b) THEN NaN
    ELSE IF a.k = "inf" \/ b.k = "inf"
         THEN (IF Sign(a.n) * Sign(b.n) = 0 THEN NaN
               ELSE IF Sign(a.n) * Sign(b.n) > 0 THEN PosInf ELSE NegInf)
    ELSE LET g1 == GCD(Abs(a.n), b.d)
             g2 == GCD(Abs(b.n), a.d)
         IN  Num((a.n \div g1) * (b.n \div g2), (a.d \div g2) * (b.d \div g1))

----------------------------------------------------------------------------
(* DataFrames                                                              *)

Tickers == {"AAPL", "MSFT"}

\* Python's order on the ticker strings (str.__lt__), as sort_values uses it.
TickerRank(t) ==
    CASE t = "AAPL" -> 1
      [] t = "MSFT" -> 2
      [] t = "X" -> 3
      [] OTHER -> 4

\* The sort key (ticker, date) of sort_values(["ticker", "date"]).
RowLE(r, s) ==
    \/ TickerRank(r.ticker) < TickerRank(s.ticker)
    \/ r.ticker = s.ticker /\ r.date <= s.date

\* Insert r after every element that does not sort after it: a stable sort.
RECURSIVE InsertSorted(_, _)
InsertSorted(s, r) ==
    IF s = <<>> THEN <<r>>
    ELSE IF RowLE(s[Len(s)], r) THEN Append(s, r)
    ELSE Append(InsertSorted(SubSeq(s, 1, Len(s) - 1), r), s[Len(s)])

\* rows.sort_values(["ticker", "date"]): ascending, stable on equal keys.
RECURSIVE sort_values(_)
sort_values(rows) ==
    IF rows = <<>> THEN <<>>
    ELSE InsertSorted(sort_values(SubSeq(rows, 1, Len(rows) - 1)), rows[Len(rows)])

\* First position of the ticker group that position i of the sorted rows s is in.
RECURSIVE GroupStart(_, _)
GroupStart(s, i) ==
    IF i = 1 \/ s[i - 1].ticker # s[i].ticker THEN i ELSE GroupStart(s, i - 1)

----------------------------------------------------------------------------
(* Fetch adapter: src/src/fetch.py                                         *)

Intervals == {"1d", "1wk"}

\* The bars the provider holds for a ticker: (time index t, close c).
FeedRows(t, interval) ==
    LET step == IF interval = "1wk" THEN 7 ELSE 1
        c    == IF t = "AAPL" THEN <<1, 2>> ELSE <<2, 1>>
    IN  [i \in 1..2 |-> [t |-> 1 + (i - 1) * step, c |-> c[i]]]

PriceColumns == {"Open", "High", "Low", "Close", "Volume", "Dividends", "Stock Splits"}

\* What yf.Ticker(t).history(...) can answer:
\*   rows     bars under a Date index
\*   adj      bars whose close is the "Adj Close" column
\*   empty    the provider's empty frame: the price columns, a Date index, no row
\*   bare     pd.DataFrame(): no column, an unnamed index, no row
\*   foreign  no row and no column the adapter knows, under a Datetime index
\*   raise    the call raises (network failure, rate limit)
HistKinds == {"rows", "adj", "empty", "bare", "foreign", "raise"}

ProviderAnswer(kind, t, interval) ==
    CASE kind = "rows" ->
            [raises |-> FALSE, index |-> "Date", columns |-> PriceColumns,
             rows |-> FeedRows(t, interval)]
      [] kind = "adj" ->
            [raises |-> FALSE, index |-> "Date",
             columns |-> (PriceColumns \ {"Close"}) \cup {"Adj Close"},
             rows |-> FeedRows(t, interval)]
      [] kind = "empty" ->
            [raises |-> FALSE, index |-> "Date",
             columns |-> PriceColumns \cup {"Adj Close"}, rows |-> <<>>]
      [] kind = "bare" ->
            [raises |-> FALSE, index |-> "", columns |-> {}, rows |-> <<>>]
      [] kind = "foreign" ->
            [raises |-> FALSE, index |-> "Datetime", columns |-> {}, rows |-> <<>>]
      [] OTHER ->
            [raises |-> TRUE, index |-> "", columns |-> {}, rows |-> <<>>]

\* str(c).strip().lower().replace(" ", "_") on the names the provider uses;
\* reset_index() names an unnamed index "index".
NormName(c) ==
    CASE c = "" -> "index"
      [] c = "Date" -> "date"
      [] c = "Datetime" -> "datetime"
      [] c = "Open" -> "open"
      [] c = "High" -> "high"
      [] c = "Low" -> "low"
      [] c = "Close" -> "close"
      [] c = "Adj Close" -> "adj_close"
      [] c = "Volume" -> "volume"
      [] c = "Dividends" -> "dividends"
      [] c = "Stock Splits" -> "stock_splits"
      [] OTHER -> c

Rename(cols, from, to) == (cols \ {from}) \cup {to}

\* _normalize_columns(df): the index becomes a column, names are normalised,
\* "index" is renamed "date" and "adj_close" "close" when those are missing.
\* The rows keep the time index t (the index column's value) and c (the
\* value of the close or adj_close column).
_normalize_columns(h) ==
    LET c0 == {NormName(c) : c \in h.columns \cup {h.index}}
        c1 == IF "date" \notin c0 /\ "index" \in c0 THEN Rename(c0, "index", "date") ELSE c0
        c2 == IF "close" \notin c1 /\ "adj_close" \in c1
              THEN Rename(c1, "adj_close", "close") ELSE c1
    IN  [columns |-> c2, rows |-> h.rows]

CanonicalColumns == {"date", "open", "high", "low", "close", "volume"}

\* keep = [c for c in [...] if c in norm.columns]
Keep(norm) == CanonicalColumns \cap norm.columns

\* block = norm[keep].copy(); block["ticker"] = t.  Every frame that has rows
\* has its date column; a block without a close column reads NaN there once
\* concatenated with blocks that have one.
Block(norm, t) ==
    [columns |-> Keep(norm) \cup {"ticker"},
     rows    |-> [i \in 1..Len(norm.rows) |->
                    [date   |-> norm.rows[i].t,
                     ticker |-> t,
                     close  |-> IF "close" \in Keep(norm)
                                THEN Num(norm.rows[i].c, 1) ELSE NaN]]]

\* The frames list after the loop over tickers[1..n]: a ticker whose
\* normalised answer has none of the canonical columns is skipped.
RECURSIVE Frames(_, _, _)
Frames(tks, hs, n) ==
    IF n = 0 THEN <<>>
    ELSE LET norm == _normalize_columns(hs[n])
         IN  IF Keep(norm) = {} THEN Frames(tks, hs, n - 1)
             ELSE Append(Frames(tks, hs, n - 1), Block(norm, tks[n]))

\* pd.concat(frames, ignore_index=True)
RECURSIVE Concat(_)
Concat(frames) ==
    IF frames = <<>> THEN [columns |-> {}, rows |-> <<>>]
    ELSE LET rest == Concat(SubSeq(frames, 1, Len(frames) - 1))
             f    == frames[Len(frames)]
         IN  [columns |-> rest.columns \cup f.columns, rows |-> rest.rows \o f.rows]

\* sort_values(["ticker", "date"]).reset_index(drop=True) of the concatenation.
SortFrame(t) == [columns |-> t.columns, rows |-> sort_values(t.rows)]

\* download_history_tidy(tickers, period, interval), the provider answering
\* hs[i] to the i-th history() call: the exception raised or the table returned.
download_history_tidy(tks, hs) ==
    IF \E i \in 1..Len(tks) : hs[i].raises
        THEN [outcome |-> "ProviderError", table |-> [columns |-> {}, rows |-> <<>>]]
    ELSE LET frames == Frames(tks, hs, Len(tks))
         IN  IF frames = <<>>
                 THEN [outcome |-> "RuntimeError", table |-> [columns |-> {}, rows |-> <<>>]]
             ELSE IF "date" \notin Concat(frames).columns
                 THEN [outcome |-> "KeyError", table |-> [columns |-> {}, rows |-> <<>>]]
             ELSE [outcome |-> "ok", table |-> SortFrame(Concat(frames))]

----------------------------------------------------------------------------
(* Transform engine: src/src/transform.py                                  *)

\* The row r with the columns of `new` assigned (added or overwritten).
Assign(r, new) == new @@ r

\* Mutant of pct_change: close.pct_change() without the groupby, so the first
\* row of a ticker is divided by the last close of the ticker before it.
pct_change_ungrouped(s) ==
    [i \in 1..Len(s) |->
        IF i = 1 THEN NaN
        ELSE FAdd(FDiv(s[i].close, s[i - 1].close), Num(-1, 1))]

\* df.groupby("ticker")["close"].pct_change() on the sorted rows s:
\* close / close.shift(1) - 1 inside each ticker group, NaN on its first row.
pct_change(s) ==
    [i \in 1..Len(s) |->
        IF GroupStart(s, i) = i THEN NaN
        ELSE FAdd(FDiv(s[i].close, s[i - 1].close), Num(-1, 1))]

\* The running product of the group that starts at g, after position i;
\* NaN entries are skipped (skipna) and leave the product as it is.
RECURSIVE CumAcc(_, _, _)
CumAcc(x, g, i) ==
    IF i < g THEN One
    ELSE LET a == CumAcc(x, g, i - 1)
         IN  IF IsNaN(x[i]) THEN a ELSE FMul(a, x[i])

\* Mutant of groupby_cumprod: cumprod() without the groupby, one running
\* product over the whole column.
cumprod_ungrouped(x, s) ==
    [i \in 1..Len(s) |->
        IF IsNaN(x[i]) THEN NaN ELSE CumAcc(x, 1, i)]

\* x.groupby(df["ticker"]).cumprod() on the sorted rows s.
groupby_cumprod(x, s) ==
    [i \in 1..Len(s) |->
        IF IsNaN(x[i]) THEN NaN ELSE CumAcc(x, GroupStart(s, i), i)]

\* The columns compute_returns reads: a missing one is a KeyError.
compute_returns_raises(t) == ~({"ticker", "date", "close"} \subseteq t.columns)

\* compute_returns(long_df): the returned frame.
compute_returns(t) ==
    LET s  == sort_values(t.rows)
        dr == pct_change(s)
        cp == groupby_cumprod([i \in 1..Len(s) |-> FAdd(One, dr[i])], s)
    IN  [columns |-> t.columns \cup {"daily_return", "cum_return"},
         rows    |-> [i \in 1..Len(s) |->
                        Assign(s[i], [daily_return |-> dr[i],
                                      cum_return   |-> FAdd(cp[i], Num(-1, 1))])]]

\* Trading days per year, the annualisation factor (252 ** 0.5).
TradingDays == 252

\* f"vol_{window}d_ann"
VolCol(window) ==
    CASE window = 2 -> "vol_2d_ann"
      [] window = 3 -> "vol_3d_ann"
      [] window = 4 -> "vol_4d_ann"
      [] window = 20 -> "vol_20d_ann"
      [] OTHER -> "vol_Nd_ann"

RECURSIVE SumOver(_, _, _)
SumOver(f, lo, hi) == IF hi < lo THEN 0 ELSE f[hi] + SumOver(f, lo, hi - 1)

RECURSIVE LcmOver(_, _, _)
LcmOver(f, lo, hi) == IF hi < lo THEN 1 ELSE LCM(f[hi], LcmOver(f, lo, hi - 1))

\* The sample variance (ddof = 1) of the finite values x[lo..hi], hi > lo:
\* (N * sum(m^2) - sum(m)^2) / (N * (N - 1) * D^2) over the common denominator D.
SampleVar(x, lo, hi) ==
    LET N  == hi - lo + 1
        D  == LcmOver([i \in lo..hi |-> x[i].d], lo, hi)
        m  == [i \in lo..hi |-> x[i].n * (D \div x[i].d)]
        s1 == SumOver(m, lo, hi)
        s2 == SumOver([i \in lo..hi |-> m[i] * m[i]], lo, hi)
    IN  FDiv(FDiv(Num(N * s2 - s1 * s1, N * (N - 1)), Num(D, 1)), Num(D, 1))

\* The non-negative root of v, times the root of `factor`.
ScaledRoot(v, factor) ==
    IF ~IsFinite(v) THEN NaN
    ELSE LET g == GCD(factor, v.d)
         IN  [k |-> "sqrt", n |-> v.n * (factor \div g), d |-> v.d \div g]

\* Mutant of rolling_std: a window one observation short, rolling(window - 1).
rolling_std_short(x, s, window) ==
    [i \in 1..Len(s) |->
        LET lo == i - window + 2
        IN  IF lo < GroupStart(s, i) THEN NaN
            ELSE IF \E j \in lo..i : ~IsFinite(x[j]) THEN NaN
            ELSE IF window < 3 THEN NaN
            ELSE SampleVar(x, lo, i)]

\* df.groupby("ticker")["daily_return"].rolling(window).std() on the sorted
\* rows s: min_periods = window, so a window that reaches before the group's
\* first row or holds a NaN or an infinity (rolling counts it as NaN) is NaN;
\* one observation has no sample deviation.
rolling_std(x, s, window) ==
    [i \in 1..Len(s) |->
        LET lo == i - window + 1
        IN  IF lo < GroupStart(s, i) THEN NaN
            ELSE IF \E j \in lo..i : ~IsFinite(x[j]) THEN NaN
            ELSE IF window < 2 THEN NaN
            ELSE SampleVar(x, lo, i)]

\* The columns compute_volatility reads: a missing one is a KeyError.
compute_volatility_raises(t) ==
    \/ ~({"ticker", "date"} \subseteq t.columns)
    \/ "daily_return" \notin t.columns /\ "close" \notin t.columns

\* compute_volatility(long_df, window): the returned frame.
compute_volatility(t, window) ==
    LET s    == sort_values(t.rows)
        dr   == IF "daily_return" \in t.columns
                THEN [i \in 1..Len(s) |-> s[i].daily_return]
                ELSE pct_change(s)
        roll == rolling_std(dr, s, window)
    IN  [columns |-> t.columns \cup {"daily_return", VolCol(window)},
         rows    |-> [i \in 1..Len(s) |->
                        Assign(s[i], (VolCol(window) :> ScaledRoot(roll[i], TradingDays))
                                     @@ [daily_return |-> dr[i]])]]

\* Mutant of arg_after_compute_returns: the columns are assigned on the
\* argument itself (no sort_values(...).copy()).
arg_after_compute_returns_inplace(t) == compute_returns(t)

\* What the caller's frame holds after compute_returns(long_df) returned:
\* sort_values(...).copy() builds a new frame, the argument is not written.
arg_after_compute_returns(t) == t

\* What the caller's frame holds after compute_volatility(long_df, window).
arg_after_compute_volatility(t, window) == t

----------------------------------------------------------------------------
(* Query cache and request path: src/app/callbacks.py                      *)

\* ",".join(tickers).  A string is modelled as its sequence of tokens, a ticker
\* symbol being one token and "," the separator.
RECURSIVE Join(_)
Join(tks) ==
    IF tks = <<>> THEN <<>>
    ELSE IF Len(tks) = 1 THEN <<tks[1]>>
    ELSE Join(SubSeq(tks, 1, Len(tks) - 1)) \o <<",", tks[Len(tks)]>>

\* tickers_key.split(","): the pieces between the separators, "" for an empty one.
RECURSIVE Split(_)
Split(key) ==
    LET commas == {i \in 1..Len(key) : key[i] = ","}
        piece(p) == IF p = <<>> THEN "" ELSE p[1]
    IN  IF commas = {} THEN <<piece(key)>>
        ELSE LET i == CHOOSE i \in commas : \A j \in commas : i <= j
             IN  <<piece(SubSeq(key, 1, i - 1))>> \o Split(SubSeq(key, i + 1, Len(key)))

\* The arguments (tickers_key, interval) lru_cache hashes.
MakeKey(tickers_key, interval) == [tickers_key |-> tickers_key, interval |-> interval]

\* window=20 in _cached_fetch.
VolWindow == 20

\* The body of _cached_fetch: the functions it called, in order, and the table
\* returned or the exception raised.  kinds[i] is the provider's answer to the
\* i-th history() call.
_cached_fetch(tickers_key, interval, kinds) ==
    LET tks == Split(tickers_key)
        hs  == [i \in 1..Len(tks) |-> ProviderAnswer(kinds[i], tks[i], interval)]
        d   == download_history_tidy(tks, hs)
    IN  IF d.outcome # "ok"
            THEN [calls |-> <<"download_history_tidy">>, outcome |-> d.outcome,
                  table |-> d.table]
        ELSE IF compute_returns_raises(d.table)
            THEN [calls |-> <<"download_history_tidy", "compute_returns">>,
                  outcome |-> "KeyError", table |-> [columns |-> {}, rows |-> <<>>]]
        ELSE [calls |-> <<"download_history_tidy", "compute_returns", "compute_volatility">>,
              outcome |-> "ok",
              table |-> compute_volatility(compute_returns(d.table), VolWindow)]

\* Position of the entry of `key` in the cache, 0 when it is not resident.
CacheFind(c, key) ==
    IF \E i \in 1..Len(c) : c[i].key = key
    THEN CHOOSE i \in 1..Len(c) : c[i].key = key
    ELSE 0

RemoveAt(c, i) == SubSeq(c, 1, i - 1) \o SubSeq(c, i + 1, Len(c))

\* Mutant of cache_hit: a hit does not refresh the entry (first in, first out).
cache_hit_no_touch(c, i) == c

\* lru_cache on a hit: the entry moves to the most recently used end.
cache_hit(c, i) == Append(RemoveAt(c, i), c[i])

\* Mutant of cache_store: the result is filed under the key without its interval.
cache_store_wrong_key(c, key, value) ==
    LET e == [key |-> MakeKey(key.tickers_key, "1d"), value |-> value]
    IN  IF Len(c) >= maxsize THEN Append(Tail(c), e) ELSE Append(c, e)

\* lru_cache after a miss: the result is stored as the most recently used
\* entry; a full cache first drops its least recently used entry.
cache_store(c, key, value) ==
    LET e == [key |-> key, value |-> value]
    IN  IF Len(c) >= maxsize THEN Append(Tail(c), e) ELSE Append(c, e)

Keys(c) == {c[i].key : i \in 1..Len(c)}

\* The access history after an access to `key`, kept to the resident keys.
Touch(h, key, resident) ==
    SelectSeq(Append(SelectSeq(h, LAMBDA k : k # key), key), LAMBDA k : k \in resident)

NoRequest ==
    [kind |-> "none", after |-> "none", key |-> MakeKey(<<>>, ""), calls |-> <<>>,
     outcome |-> "none", result |-> [columns |-> {}, rows |-> <<>>], evicted |-> {}]

\* The ticker selections the dashboard sends, in the order they were picked.
Selections == {<<>>, <<"AAPL">>, <<"AAPL", "MSFT">>, <<"MSFT", "AAPL">>}

\* The provider's answers in the request path.
RequestKinds == {"rows", "foreign", "raise"}

\* Mutant of FetchTable: _cached_fetch catches the pipeline's exception and
\* returns the empty frame, a value lru_cache then stores.
FetchTable_swallowing ==
    [a \in UNION { { <<Join(tks), interval, kinds>> :
                        kinds \in [1..Len(tks) -> RequestKinds] } :
                   <<tks, interval>> \in (Selections \ {<<>>}) \X Intervals }
        |-> [_cached_fetch(a[1], a[2], a[3]) EXCEPT !.outcome = "ok"]]

\* _cached_fetch tabulated over the calls the request path can make (the
\* function is evaluated once per argument instead of once per step).
FetchTable ==
    [a \in UNION { { <<Join(tks), interval, kinds>> :
                        kinds \in [1..Len(tks) -> RequestKinds] } :
                   <<tks, interval>> \in (Selections \ {<<>>}) \X Intervals }
        |-> _cached_fetch(a[1], a[2], a[3])]

\* update_main(tickers, ..., interval, ...), up to the table it renders from.
update_main(tks, interval, kinds) ==
    IF tks = <<>>
    THEN \* Empty state: no fetch.
         /\ last' = [NoRequest EXCEPT !.kind = "empty", !.after = last.kind]
         /\ UNCHANGED <<cache, touched>>
    ELSE LET key == MakeKey(Join(tks), interval)
             i   == CacheFind(cache, key)
             run == FetchTable[<<key.tickers_key, key.interval, kinds>>]
         IN  IF i # 0
             THEN /\ cache' = cache_hit(cache, i)
                  /\ touched' = Touch(touched, key, Keys(cache'))
                  /\ last' = [kind |-> "hit", after |-> last.kind, key |-> key,
                              calls |-> <<>>, outcome |-> "ok",
                              result |-> cache[i].value, evicted |-> {}]
             ELSE IF run.outcome # "ok"
             THEN /\ last' = [kind |-> "miss", after |-> last.kind, key |-> key,
                              calls |-> run.calls, outcome |-> run.outcome,
                              result |-> run.table, evicted |-> {}]
                  /\ UNCHANGED <<cache, touched>>
             ELSE /\ cache' = cache_store(cache, key, run.table)
                  /\ touched' = Touch(touched, key, Keys(cache'))
                  /\ last' = [kind |-> "miss", after |-> last.kind, key |-> key,
                              calls |-> run.calls, outcome |-> "ok",
                              result |-> run.table,
                              evicted |-> Keys(cache) \ Keys(cache')]

Request ==
    /\ \E tks \in Selections : \E interval \in Intervals :
          \E kinds \in [1..Len(tks) -> RequestKinds] : update_main(tks, interval, kinds)
    /\ UNCHANGED pipeVars
    /\ UNCHANGED concVars

Init ==
    /\ cache = <<>>
    /\ touched = <<>>
    /\ last = NoRequest
    /\ tickers = <<>>
    /\ hists = <<>>
    /\ outcome = "none"
    /\ arg0 = [columns |-> {}, rows |-> <<>>]
    /\ long_df = [columns |-> {}, rows |-> <<>>]
    /\ df = [columns |-> {}, rows |-> <<>>]
    /\ hist = <<>>
    /\ th = [t \in 1..MaxThreads |-> [pc |-> "idle", key |-> MakeKey(<<>>, ""),
                                       val |-> [columns |-> {}, rows |-> <<>>]]]
    /\ lock = 0

Next == Request

Spec == Init /\ [][Next]_vars

----------------------------------------------------------------------------
(* ConcSpec: requests in flight at once.  The dashboard's server runs each *)
(* callback in a thread of its own; _cached_fetch is the lru_cache wrapper, *)
(* which looks the key up and moves a hit to the recent end under its      *)
(* lock, calls the wrapped function with the lock released, and takes the  *)
(* lock again to store the result.                                         *)

Threads == 1..MaxThreads

\* The queries the concurrent sessions send.
ConcQueries ==
    {<<(<<"AAPL">>), "1d">>, <<(<<"AAPL">>), "1wk">>,
     <<(<<"AAPL", "MSFT">>), "1d">>, <<(<<"MSFT", "AAPL">>), "1d">>}

\* The provider's answers while requests overlap, the same for every ticker
\* of one request.
ConcKinds == {"rows", "raise"}

Idle == [pc |-> "idle", key |-> MakeKey(<<>>, ""), val |-> [columns |-> {}, rows |-> <<>>]]

\* Mutant of lock_acquire: the lock excludes nobody.
lock_acquire_unguarded(l, t) == TRUE

\* `with lock:` can be entered by thread t when no thread holds the lock.
lock_acquire(l, t) == l = 0

\* Mutant of call_key: the key lives in a variable the requests share, so a
\* result is filed under the key of another request in flight.
shared_key(s, t) ==
    IF \E u \in DOMAIN s : u # t /\ s[u].pc # "idle"
    THEN s[CHOOSE u \in DOMAIN s : u # t /\ s[u].pc # "idle"].key
    ELSE s[t].key

\* The key a call stores its result under: the key it made from its own
\* arguments, a local of the call.
call_key(s, t) == s[t].key

\* First half of the move of a hit: the link leaves the recency order.
unlink(c, i) == RemoveAt(c, i)

\* Second half of the move of a hit, and the insertion of a new entry: the
\* link goes to the most recently used end.
link_last(c, e) == Append(c, e)

\* The least recently used link leaves a full cache.
evict_oldest(c) == Tail(c)

\* update_main builds the key and enters the wrapper; under the lock the key
\* is looked up: a hit starts moving its link, a miss leaves the lock and
\* goes on to call the wrapped function.
Lookup(t, q) ==
    LET key == MakeKey(Join(q[1]), q[2])
        i   == CacheFind(cache, key)
    IN  /\ th[t].pc = "idle"
        /\ lock_acquire(lock, t)
        /\ IF i # 0
           THEN /\ cache' = unlink(cache, i)
                /\ th' = [th EXCEPT ![t] = [pc |-> "relink", key |-> key,
                                             val |-> cache[i].value]]
                /\ lock' = t
           ELSE /\ th' = [th EXCEPT ![t] = [pc |-> "call", key |-> key, val |-> Idle.val]]
                /\ UNCHANGED <<cache, lock>>
        /\ UNCHANGED <<touched, last>>
        /\ UNCHANGED pipeVars

\* The hit completes: the link is the most recently used, the lock is
\* released and the stored table is returned.
Relink(t) ==
    /\ th[t].pc = "relink"
    /\ cache' = link_last(cache, [key |-> th[t].key, value |-> th[t].val])
    /\ touched' = Touch(touched, th[t].key, Keys(cache'))
    /\ lock' = 0
    /\ th' = [th EXCEPT ![t] = Idle]
    /\ UNCHANGED last
    /\ UNCHANGED pipeVars

\* The wrapped function runs outside the lock; an exception leaves the
\* wrapper at once.
Fetch(t, kind) ==
    LET key == th[t].key
        run == FetchTable[<<key.tickers_key, key.interval,
                            [i \in 1..Len(Split(key.tickers_key)) |-> kind]>>]
    IN  /\ th[t].pc = "call"
        /\ th' = [th EXCEPT ![t] = IF run.outcome = "ok"
                                    THEN [pc |-> "store", key |-> key, val |-> run.table]
                                    ELSE Idle]
        /\ UNCHANGED <<cache, touched, last, lock>>
        /\ UNCHANGED pipeVars

\* Back under the lock with the result: nothing to do when the key was added
\* meanwhile; a full cache first drops its oldest link; otherwise the entry is
\* linked in.
Store(t) ==
    LET key == call_key(th, t)
    IN  /\ th[t].pc = "store"
        /\ lock_acquire(lock, t)
        /\ IF key \in Keys(cache)
           THEN /\ th' = [th EXCEPT ![t] = Idle]
                /\ UNCHANGED <<cache, touched, lock>>
           ELSE IF Len(cache) >= maxsize
           THEN /\ cache' = evict_oldest(cache)
                /\ th' = [th EXCEPT ![t].pc = "insert"]
                /\ lock' = t
                /\ UNCHANGED touched
           ELSE /\ cache' = link_last(cache, [key |-> key, value |-> th[t].val])
                /\ touched' = Touch(touched, key, Keys(cache'))
                /\ th' = [th EXCEPT ![t] = Idle]
                /\ UNCHANGED lock
        /\ UNCHANGED last
        /\ UNCHANGED pipeVars

\* The new entry takes the place of the evicted one and the lock is released.
Insert(t) ==
    LET key == call_key(th, t)
    IN  /\ th[t].pc = "insert"
        /\ cache' = link_last(cache, [key |-> key, value |-> th[t].val])
        /\ touched' = Touch(touched, key, Keys(cache'))
        /\ lock' = 0
        /\ th' = [th EXCEPT ![t] = Idle]
        /\ UNCHANGED last
        /\ UNCHANGED pipeVars

ConcNext ==
    \E t \in Threads :
        \/ \E q \in ConcQueries : Lookup(t, q)
        \/ Relink(t)
        \/ \E kind \in ConcKinds : Fetch(t, kind)
        \/ Store(t)
        \/ Insert(t)

ConcSpec == Init /\ [][ConcNext]_vars

----------------------------------------------------------------------------
(* Inputs of PipeSpec                                                      *)

\* The (ticker, date) pairs a drawn table takes its rows from: a ticker with up
\* to four dates beside one with up to two.
InputKeys == ({"AAPL"} \X {1, 2, 3, 4}) \cup ({"MSFT"} \X {1, 2})

Closes == {0, 1, 2}

TidyColumns == {"date", "ticker", "close"}

TidyRow(t, d, c) == [date |-> d, ticker |-> t, close |-> Num(c, 1)]

\* The rows of a key -> close assignment f, in (ticker, date) order.
RECURSIVE RowsOf(_)
RowsOf(f) ==
    IF DOMAIN f = {} THEN <<>>
    ELSE LET k == CHOOSE k \in DOMAIN f :
                     \A j \in DOMAIN f :
                        \/ TickerRank(k[1]) < TickerRank(j[1])
                        \/ k[1] = j[1] /\ k[2] <= j[2]
         IN  <<TidyRow(k[1], k[2], f[k])>>
                 \o RowsOf([j \in DOMAIN f \ {k} |-> f[j]])

Reverse(s) == [i \in 1..Len(s) |-> s[Len(s) + 1 - i]]

\* Odd positions, then even ones: interleaves the ticker groups.
Riffle(s) ==
    LET n == Len(s)
        h == (n + 1) \div 2
    IN  [i \in 1..n |-> IF i <= h THEN s[2 * i - 1] ELSE s[2 * (i - h)]]

\* The closes of the end-to-end example, one ticker "X", dates 1..5.
ExampleCloses == <<100, 101, 99, 99, 103>>

ExampleTable ==
    [columns |-> TidyColumns,
     rows    |-> [i \in 1..Len(ExampleCloses) |-> TidyRow("X", i, ExampleCloses[i])]]

\* Tidy tables with distinct (ticker, date) keys, rows in several orders.
InputTables ==
    {ExampleTable} \cup
    { [columns |-> TidyColumns, rows |-> rows] :
        rows \in UNION {
            {RowsOf(f), Reverse(RowsOf(f)), Riffle(RowsOf(f))} :
                f \in UNION { [K -> Closes] :
                        K \in {K \in SUBSET InputKeys : Cardinality(K) <= MaxRows} } } }

Windows == {2, 3}

NoTable == [columns |-> {}, rows |-> <<>>]

----------------------------------------------------------------------------
(* PipeSpec: the pipeline functions applied to drawn inputs                *)

\* Ticker sequences of 0..MaxTickers symbols, a symbol possibly repeated.
TickerSeqs == UNION { [1..n -> Tickers] : n \in 0..MaxTickers }

IsTransform(c) == c.fn # "download_history_tidy"

Download(tks, interval, kinds) ==
    LET hs  == [i \in 1..Len(tks) |-> ProviderAnswer(kinds[i], tks[i], interval)]
        res == download_history_tidy(tks, hs)
    IN  /\ outcome = "none"
        /\ tickers' = tks
        /\ hists' = hs
        /\ outcome' = res.outcome
        /\ df' = res.table
        /\ hist' = <<[fn |-> "download_history_tidy", window |-> 0]>>
        /\ UNCHANGED <<arg0, long_df>>
        /\ UNCHANGED cacheVars
    /\ UNCHANGED concVars

CallComputeReturns ==
    /\ outcome = "ok"
    /\ Len(SelectSeq(hist, IsTransform)) < MaxCalls
    /\ hist' = Append(hist, [fn |-> "compute_returns", window |-> 0])
    /\ arg0' = df
    /\ IF compute_returns_raises(df)
       THEN /\ outcome' = "KeyError"
            /\ long_df' = df
            /\ df' = NoTable
       ELSE /\ outcome' = "ok"
            /\ long_df' = arg_after_compute_returns(df)
            /\ df' = compute_returns(df)
    /\ UNCHANGED <<tickers, hists>>
    /\ UNCHANGED cacheVars
    /\ UNCHANGED concVars

CallComputeVolatility(window) ==
    /\ outcome = "ok"
    /\ Len(SelectSeq(hist, IsTransform)) < MaxCalls
    /\ hist' = Append(hist, [fn |-> "compute_volatility", window |-> window])
    /\ arg0' = df
    /\ IF compute_volatility_raises(df)
       THEN /\ outcome' = "KeyError"
            /\ long_df' = df
            /\ df' = NoTable
       ELSE /\ outcome' = "ok"
            /\ long_df' = arg_after_compute_volatility(df, window)
            /\ df' = compute_volatility(df, window)
    /\ UNCHANGED <<tickers, hists>>
    /\ UNCHANGED cacheVars
    /\ UNCHANGED concVars

PipeInit ==
    /\ cache = <<>>
    /\ touched = <<>>
    /\ last = NoRequest
    /\ tickers = <<>>
    /\ hists = <<>>
    /\ hist = <<>>
    /\ arg0 = NoTable
    /\ long_df = NoTable
    /\ th = [t \in 1..MaxThreads |-> [pc |-> "idle", key |-> MakeKey(<<>>, ""),
                                       val |-> NoTable]]
    /\ lock = 0
    /\ \/ outcome = "ok" /\ df \in InputTables
       \/ outcome = "none" /\ df = NoTable

\* The interval only changes the dates the provider answers with; the
\* download is taken at the default interval ("1d", fetch.py line 31).
PipeNext ==
    \/ \E tks \in TickerSeqs :
          \E kinds \in [1..Len(tks) -> HistKinds] : Download(tks, "1d", kinds)
    \/ CallComputeReturns
    \/ \E window \in Windows : CallComputeVolatility(window)

PipeSpec == PipeInit /\ [][PipeNext]_vars

----------------------------------------------------------------------------
(* Properties of the request path, checked under Spec                      *)

\* The table stored under `key` in the cache c.
Stored(c, key) == c[CHOOSE i \in 1..Len(c) : c[i].key = key].value

\* The set of symbols a key was built from.
TickerSet(key) == {Split(key.tickers_key)[i] : i \in 1..Len(Split(key.tickers_key))}

\* Two keys of the same effective query: the same symbols, the same interval.
SameQuery(k1, k2) == k1.interval = k2.interval /\ TickerSet(k1) = TickerSet(k2)

\* The step just taken was a request that reached _cached_fetch.
Fetched == last'.kind \in {"hit", "miss"}

PipelineCalls == <<"download_history_tidy", "compute_returns", "compute_volatility">>

\* C1: cache key order-independence.  A request whose selection holds the same
\* symbols as a resident entry's, in any order, at the same interval, is a hit
\* on that entry: it adds no entry and does not call the fetch adapter.
C1_OrderIndependentKey ==
    [][ (Fetched /\ \E k \in Keys(cache) : SameQuery(k, last'.key))
            => /\ last'.kind = "hit"
               /\ last'.calls = <<>>
               /\ Keys(cache') = Keys(cache) ]_vars

\* C2 as stated: a request whose key is resident returns the stored table and
\* calls nothing; a request whose key is not resident calls
\* download_history_tidy, compute_returns and compute_volatility (window 20)
\* once each in that order, stores the result under its key and returns it.
C2_HitMissProtocol ==
    [][ Fetched =>
            IF last'.key \in Keys(cache)
            THEN /\ last'.calls = <<>>
                 /\ last'.result = Stored(cache, last'.key)
            ELSE /\ last'.calls = PipelineCalls
                 /\ VolCol(20) \in last'.result.columns
                 /\ last'.key \in Keys(cache')
                 /\ Stored(cache', last'.key) = last'.result ]_vars

\* C2 amended: a request whose key is resident returns the stored table and
\* calls nothing; a request whose key is not resident calls
\* download_history_tidy once, first; when the pipeline completes it has then
\* called compute_returns and compute_volatility (window 20) once each in that
\* order, and the result is stored under the key and returned; when a call
\* raises, no later function is called and nothing is stored.
C2_HitMissProtocolAmended ==
    [][ Fetched =>
            IF last'.key \in Keys(cache)
            THEN /\ last'.calls = <<>>
                 /\ last'.result = Stored(cache, last'.key)
            ELSE IF last'.outcome = "ok"
            THEN /\ last'.calls = PipelineCalls
                 /\ VolCol(20) \in last'.result.columns
                 /\ last'.key \in Keys(cache')
                 /\ Stored(cache', last'.key) = last'.result
            ELSE /\ last'.calls # <<>>
                 /\ last'.calls = SubSeq(PipelineCalls, 1, Len(last'.calls))
                 /\ Len(last'.calls) < Len(PipelineCalls)
                 /\ cache' = cache ]_vars

\* C2's case: a hit that follows a miss and returns a table with rows, while
\* the cache holds another entry too.
C2_Witness ==
    /\ last.kind = "hit"
    /\ last.after = "miss"
    /\ last.calls = <<>>
    /\ last.result.rows # <<>>
    /\ Len(cache) = 2

\* C3: LRU eviction.  The cache never holds more than its capacity; when a miss
\* inserts into a full cache exactly one entry leaves, the one whose most
\* recent access (hit or insert) is the oldest, and the new entry comes in.
C3_LruEviction ==
    /\ [](Len(cache) <= maxsize)
    /\ [][ (/\ last'.kind = "miss"
            /\ last'.outcome = "ok"
            /\ last'.key \notin Keys(cache)
            /\ Len(cache) = maxsize)
               => /\ Len(cache') = maxsize
                  /\ Keys(cache) \ Keys(cache') = {touched[1]}
                  /\ Keys(cache') \ Keys(cache) = {last'.key} ]_vars

\* C3's case: an eviction right after a hit, the entry that was read staying
\* resident.
C3_Witness ==
    /\ last.kind = "miss"
    /\ last.after = "hit"
    /\ last.evicted # {}
    /\ Len(cache) = maxsize
    /\ Len(touched) = maxsize

\* The request just made missed, and its pipeline did not run to its end.
MissFailed(r) == r.kind = "miss" /\ (r.outcome # "ok" \/ r.calls # PipelineCalls)

\* C15: errors are never cached.  When the pipeline of a missed key ends in an
\* error, the cache and its recency order are what they were before the
\* request and the error reaches the caller of _cached_fetch instead of a
\* table; the next request with the same key is again a miss that calls
\* download_history_tidy.
C15_ErrorsNeverCached ==
    /\ [][ MissFailed(last')
              => /\ cache' = cache
                 /\ touched' = touched
                 /\ last'.key \notin Keys(cache')
                 /\ last'.outcome \in {"RuntimeError", "ProviderError", "KeyError"}
                 /\ last'.result.columns = {} ]_vars
    /\ [][ (MissFailed(last) /\ Fetched /\ last'.key = last.key)
              => /\ last'.kind = "miss"
                 /\ last'.calls # <<>>
                 /\ last'.calls[1] = "download_history_tidy" ]_vars

\* C15's case: the no-data error on a miss while the cache is full, right
\* after a miss that stored its result.
C15_Witness ==
    /\ last.kind = "miss"
    /\ last.after = "miss"
    /\ last.outcome = "RuntimeError"
    /\ last.calls = <<"download_history_tidy">>
    /\ Len(cache) = maxsize
    /\ last.key \notin Keys(cache)

----------------------------------------------------------------------------
(* Properties of the pipeline functions, checked under PipeSpec            *)

LastCall == hist[Len(hist)]

\* download_history_tidy was called and has just returned or raised.
JustDownloaded == Len(hist) = 1 /\ hist[1].fn = "download_history_tidy"

Downloaded == hist # <<>> /\ hist[1].fn = "download_history_tidy"

YieldsRows(h) == ~h.raises /\ h.rows # <<>>

RowSet(t) == {t.rows[i] : i \in 1..Len(t.rows)}

\* No two rows of t share a (ticker, date) pair.
DistinctKeys(t) ==
    \A i, j \in 1..Len(t.rows) :
        (t.rows[i].ticker = t.rows[j].ticker /\ t.rows[i].date = t.rows[j].date) => i = j

\* How many rows of t are (ticker, date, close) = (tk, d, c).
CountRows(t, tk, d, c) ==
    Cardinality({i \in 1..Len(t.rows) :
        t.rows[i].ticker = tk /\ t.rows[i].date = d /\ t.rows[i].close = c})

\* How many rows (d, c) the answers with rows hold for the requests of ticker tk.
CountFed(tk, d, c) ==
    Cardinality({ij \in UNION {{<<i, j>> : j \in 1..Len(hists[i].rows)} : i \in 1..Len(hists)} :
        /\ tickers[ij[1]] = tk
        /\ hists[ij[1]].rows[ij[2]].t = d
        /\ Num(hists[ij[1]].rows[ij[2]].c, 1) = c})

\* C4: total emptiness is fatal.  For every non-empty ticker sequence, when the
\* provider returns zero rows for every ticker, download_history_tidy ends in
\* the no-data error (RuntimeError) and returns no table.
C4_TotalEmptinessIsFatal ==
    (/\ JustDownloaded
     /\ tickers # <<>>
     /\ \A i \in 1..Len(hists) : ~hists[i].raises /\ hists[i].rows = <<>>)
        => outcome = "RuntimeError"

\* C5: partial fetch failure is tolerated.  When at least one ticker yields
\* rows, a failure of another ticker's fetch (zero rows, or the provider call
\* failing) does not fail the request: the table returned holds exactly the
\* rows of the tickers that yielded data.
C5_PartialFailureTolerated ==
    (JustDownloaded /\ \E i \in 1..Len(hists) : YieldsRows(hists[i]))
        => /\ outcome = "ok"
           /\ \A tk \in Tickers : \A d \in 1..8 : \A c \in {Num(1, 1), Num(2, 1)} :
                 CountRows(df, tk, d, c) = CountFed(tk, d, c)

\* C6: ordering invariant of the tidy table.  For every accepted ticker
\* sequence (any order, a symbol possibly listed twice) the table returned by
\* download_history_tidy, and the table after the transforms, is sorted by
\* (ticker, date) with strictly increasing dates inside each ticker group.
C6_StrictOrdering ==
    (Downloaded /\ outcome = "ok")
        => \A i \in 1..(Len(df.rows) - 1) :
              \/ TickerRank(df.rows[i].ticker) < TickerRank(df.rows[i + 1].ticker)
              \/ /\ df.rows[i].ticker = df.rows[i + 1].ticker
                 /\ df.rows[i].date < df.rows[i + 1].date

ReturnsJustComputed ==
    hist # <<>> /\ LastCall.fn = "compute_returns" /\ outcome = "ok"

\* The rows of t of ticker tk dated before d.
Before(t, tk, d) == {q \in RowSet(t) : q.ticker = tk /\ q.date < d}

\* The latest row of a non-empty set of rows of one ticker.
Latest(P) == CHOOSE q \in P : \A m \in P : m.date <= q.date

Earliest(P) == CHOOSE q \in P : \A m \in P : q.date <= m.date

\* C7: daily_return of compute_returns.  For every table with distinct
\* (ticker, date) pairs, rows in any order, daily_return is absent on the first
\* row by date of each ticker and is close / previous close - 1 on every other
\* row, the previous row being the latest earlier row of the same ticker; the
\* closes 100, 101, 99, 99, 103 give absent, 1/100, -2/101, 0, 4/99 and a final
\* cum_return of 3/100.
C7_DailyReturn ==
    (ReturnsJustComputed /\ DistinctKeys(arg0))
        => /\ Len(df.rows) = Len(arg0.rows)
           /\ \A i \in 1..Len(df.rows) :
                 LET r == df.rows[i]
                     P == Before(arg0, r.ticker, r.date)
                 IN  /\ \E q \in RowSet(arg0) :
                            q.ticker = r.ticker /\ q.date = r.date /\ q.close = r.close
                     /\ IF P = {} THEN IsNaN(r.daily_return)
                        ELSE r.daily_return
                                = FAdd(FDiv(r.close, Latest(P).close), Num(-1, 1))
           /\ arg0 = ExampleTable
                 => /\ [i \in 1..Len(df.rows) |-> df.rows[i].daily_return]
                         = <<NaN, [k |-> "num", n |-> 1, d |-> 100],
                             [k |-> "num", n |-> -2, d |-> 101],
                             [k |-> "num", n |-> 0, d |-> 1],
                             [k |-> "num", n |-> 4, d |-> 99]>>
                    /\ df.rows[5].cum_return = [k |-> "num", n |-> 3, d |-> 100]

\* C7's case: returns computed on a table given out of order, of two tickers,
\* one of which has a row with a finite, non-zero return.
C7_Witness ==
    /\ ReturnsJustComputed
    /\ DistinctKeys(arg0)
    /\ arg0.rows # sort_values(arg0.rows)
    /\ \E r, q \in RowSet(df) :
          /\ r.ticker = "MSFT" /\ q.ticker = "AAPL"
          /\ IsFinite(r.daily_return) /\ r.daily_return.n # 0
          /\ r.date > q.date

\* C8: cum_return round trip.  For every ticker group with positive closes and
\* every row after the group's first, first close * (1 + cum_return) is the
\* row's close, the first close being that of the same ticker; cum_return is
\* absent on the first row of each group.
C8_CumReturnRoundTrip ==
    (ReturnsJustComputed /\ DistinctKeys(arg0))
        => \A i \in 1..Len(df.rows) :
              LET r     == df.rows[i]
                  G     == {q \in RowSet(arg0) : q.ticker = r.ticker}
                  first == Earliest(G)
              IN  /\ r.date = first.date => IsNaN(r.cum_return)
                  /\ (r.date # first.date /\ \A q \in G : q.close.n > 0)
                        => FMul(first.close, FAdd(One, r.cum_return)) = r.close

\* C8's case: two tickers with positive closes, the second ticker's closes
\* moving, so that a product carried over the boundary would show.
C8_Witness ==
    /\ ReturnsJustComputed
    /\ DistinctKeys(arg0)
    /\ \A q \in RowSet(arg0) : q.close.n > 0
    /\ \E a, b, c \in RowSet(df) :
          /\ a.ticker = "AAPL" /\ b.ticker = "AAPL" /\ a.date < b.date
          /\ a.close # b.close
          /\ c.ticker = "MSFT" /\ IsFinite(c.cum_return) /\ c.cum_return.n # 0

VolJustComputed ==
    hist # <<>> /\ LastCall.fn = "compute_volatility" /\ outcome = "ok"

\* C9: warm-up of compute_volatility.  For every window N >= 2 and every ticker
\* group, vol_Nd_ann is absent on the group's first row and on the first N - 1
\* rows that carry a defined (finite) daily_return, present and non-negative on
\* every later row whose trailing N returns are all defined, and absent on all
\* rows of a ticker with fewer than N defined returns.
C9_VolatilityWarmUp ==
    (VolJustComputed /\ DistinctKeys(arg0))
        => LET N        == LastCall.window
               R        == RowSet(df)
               Grp(r)   == {q \in R : q.ticker = r.ticker}
               Upto(r)  == {q \in Grp(r) : q.date <= r.date}
               Trail(r) == {q \in Upto(r) :
                               Cardinality({p \in Upto(r) : p.date > q.date}) < N}
               Def(S)   == {q \in S : IsFinite(q.daily_return)}
               vol(r)   == r[VolCol(N)]
           IN  \A r \in R :
                  /\ Cardinality(Upto(r)) = 1 => IsNaN(vol(r))
                  /\ (IsFinite(r.daily_return) /\ Cardinality(Def(Upto(r))) <= N - 1)
                        => IsNaN(vol(r))
                  /\ (Cardinality(Trail(r)) = N /\ Def(Trail(r)) = Trail(r))
                        => vol(r).k = "sqrt" /\ vol(r).n >= 0
                  /\ Cardinality(Def(Grp(r))) < N => IsNaN(vol(r))

\* C9's case: a ticker with a present volatility next to a ticker with too few
\* returns.
C9_Witness ==
    /\ VolJustComputed
    /\ DistinctKeys(arg0)
    /\ \E r, q \in RowSet(df) :
          /\ r.ticker # q.ticker
          /\ r[VolCol(LastCall.window)].k = "sqrt"
          /\ r[VolCol(LastCall.window)].n > 0
          /\ IsNaN(q[VolCol(LastCall.window)])

\* C10: idempotence of the transforms.  Calling compute_returns, or
\* compute_volatility with the same window, on its own result returns that
\* result again, on all rows and columns; neither call changes its argument.
C10_Idempotence ==
    /\ (/\ Len(hist) >= 2
        /\ IsTransform(LastCall)
        /\ hist[Len(hist) - 1] = LastCall
        /\ outcome = "ok") => df = arg0
    /\ (hist # <<>> /\ IsTransform(LastCall)) => long_df = arg0

\* C10's case: the same transform called twice in a row on an unsorted table
\* that has a defined return.
C10_Witness ==
    /\ Len(hist) = 2
    /\ hist[1] = hist[2]
    /\ hist[1].fn = "compute_returns"
    /\ outcome = "ok"
    /\ \E r \in RowSet(df) : IsFinite(r.daily_return) /\ r.daily_return.n # 0

\* The price columns a provider answer must have once normalised.
RequiredOHLC == {"open", "high", "low", "close"}

\* The provider answered, and the normalised answer lacks a required column.
Malformed(h) == ~h.raises /\ ~(RequiredOHLC \subseteq _normalize_columns(h).columns)

\* C13: malformed provider output is a per-ticker failure.  When the
\* normalised answer for a ticker lacks the required OHLC columns, that ticker
\* is left out of the table and the rows of the other tickers are returned;
\* when it is the only ticker requested the request ends in the no-data error
\* (RuntimeError), it neither returns a table nor fails later in a transform.
C13_MalformedIsPerTickerFailure ==
    (/\ Downloaded
     /\ \A i \in 1..Len(hists) : ~hists[i].raises
     /\ \E i \in 1..Len(hists) : Malformed(hists[i]))
        => /\ Len(tickers) = 1 => outcome = "RuntimeError"
           /\ (JustDownloaded /\ \E j \in 1..Len(hists) : ~Malformed(hists[j]))
                 => /\ outcome = "ok"
                    /\ \A r \in RowSet(df) :
                          \E j \in 1..Len(hists) :
                              tickers[j] = r.ticker /\ ~Malformed(hists[j])
                    /\ \A tk \in Tickers : \A d \in 1..8 :
                          \A c \in {Num(1, 1), Num(2, 1)} :
                             CountRows(df, tk, d, c) = CountFed(tk, d, c)

----------------------------------------------------------------------------
(* Properties of overlapping requests, checked under ConcSpec              *)

\* The entries the cache holds: the linked ones and the one a hit is moving.
Entries ==
    {cache[i] : i \in 1..Len(cache)}
        \cup {[key |-> th[t].key, value |-> th[t].val] : t \in {u \in Threads : th[u].pc = "relink"}}

\* `table` is what the pipeline returns for the arguments of `key` under one
\* of the provider's answers.
Computes(key, table) ==
    \E kind \in ConcKinds :
        LET run == FetchTable[<<key.tickers_key, key.interval,
                                [i \in 1..Len(Split(key.tickers_key)) |-> kind]>>]
        IN  run.outcome = "ok" /\ run.table = table

\* C11: stale in-flight results cannot corrupt the cache.  Under every
\* interleaving of overlapping requests, every entry resident under a key
\* (tickers_key, interval) holds a table the pipeline computed for exactly that
\* tickers_key and interval, never the result of a request with another key.
C11_NoStaleEntry ==
    \A e \in Entries : Computes(e.key, e.value)

\* C11's case: two misses on one key overlapped and one has stored; the other
\* holds its result while a request for a different key has stored too.
C11_Witness ==
    /\ Len(cache) = 2
    /\ cache[1].value # cache[2].value
    /\ \E t \in Threads :
          /\ th[t].pc = "store"
          /\ th[t].key = cache[1].key
          /\ \E u \in Threads \ {t} : th[u].pc = "call" /\ th[u].key # th[t].key

\* C12: cache mutations are atomic.  At most one thread is inside a mutation
\* of the cache (the move of a hit, an eviction with its insertion); the number
\* of entries never exceeds the capacity; an eviction never runs while a hit
\* is moving its link, and its victim is the least recently accessed entry.
C12_AtomicMutations ==
    /\ [](Cardinality({t \in Threads : th[t].pc \in {"relink", "insert"}}) <= 1)
    /\ [](Cardinality(Entries) <= maxsize /\ Len(cache) <= maxsize)
    /\ [][ (\E t \in Threads : th[t].pc = "store" /\ th'[t].pc = "insert")
              => /\ \A u \in Threads : th[u].pc # "relink"
                 /\ Len(touched) = Len(cache)
                 /\ cache[1].key = touched[1]
                 /\ Keys(cache) \ Keys(cache') = {touched[1]} ]_vars

\* C12's case: a hit is in the middle of moving its link while another request
\* waits with a result whose insertion needs an eviction.
C12_Witness ==
    \E t, u \in Threads :
        /\ th[t].pc = "relink"
        /\ th[u].pc = "store"
        /\ th[u].key \notin Keys(cache) \cup {th[t].key}
        /\ Len(cache) + 1 = maxsize
        /\ lock = t

====
